---- MODULE Spec2Model ----
(***************************************************************************)
(* UniqueMoleculeContainer (scrubber/common.py): an insertion-ordered      *)
(* mapping from canonical SMILES keys to RDKit molecules, with a "sealed"  *)
(* flag, set algebra and sequence-like access.                             *)
(*                                                                         *)
(* Two program variables (x and y, the slots 1 and 2) each hold a          *)
(* container object.  A container object references its private dict       *)
(* (self.__data) on a heap of dicts, so that sharing a dict between two    *)
(* containers is expressible.  A dict is the sequence of its items in      *)
(* insertion order, as a Python dict keeps them.                           *)
(***************************************************************************)
EXTENDS Integers, Sequences, FiniteSets, TLC

\* heap.cont: the container object each slot holds (the address of its dict,
\* its sealed attribute, its chirality mode, its iteration counter);
\* heap.dicts: the dicts; heap.loops: the for loops of the caller over a
\* container (the iterator a loop holds, what it has been given so far).
VARIABLES heap

vars == <<heap>>

cont == heap.cont

dicts == heap.dicts

\* The program variables holding containers.
Slots == {1, 2}

\* Addresses of dict objects.
DictIds == Slots

\* The molecules of the model: skeleton (base) and stereo descriptor
\* (0: the molecule has no stereocentre).  mol1 and mol2 are two Mol objects
\* of the same structure; mol3 has a stereocentre.
Mols == {"mol1", "mol2", "mol3"}

Base(mol) == IF mol = "mol3" THEN 2 ELSE 1

Stereo(mol) == IF mol = "mol3" THEN 1 ELSE 0

\* Chem.MolToSmiles(Chem.RemoveHs(mol), isomericSmiles=chirality,
\* canonical=True): the canonical SMILES keeps the stereo descriptor only
\* when isomericSmiles is set.
mol2smi(mol, chirality) ==
    IF chirality THEN <<Base(mol), Stereo(mol)>> ELSE <<Base(mol), 0>>

\* Every SMILES string a caller may pass as a key.
Smiles == {mol2smi(m, c) : m \in Mols, c \in BOOLEAN}

\* Longest list of molecules passed as an argument.
MaxList == 2

\* Integer arguments used as positions: the last item (-1), every position
\* of a dict, and one past the end of any dict.
Indices == (0 - 1)..Cardinality(Smiles)

(***************************************************************************)
(* Python dict, as the sequence of its items.                              *)
(***************************************************************************)
DictKeys(d) == [n \in 1..Len(d) |-> d[n].key]

DictValues(d) == [n \in 1..Len(d) |-> d[n].mol]

HasKey(d, k) == \E n \in 1..Len(d) : d[n].key = k

\* Position of key k (k is present).
PosOf(d, k) == CHOOSE n \in 1..Len(d) : d[n].key = k

\* d[k]
DictGet(d, k) == d[PosOf(d, k)].mol

\* d[k] = v: a present key keeps its position, a new key goes last.
DictSet(d, k, v) ==
    IF HasKey(d, k)
    THEN [d EXCEPT ![PosOf(d, k)] = [key |-> k, mol |-> v]]
    ELSE Append(d, [key |-> k, mol |-> v])

\* del d[k] (k is present): the other items keep their order.
DictDel(d, k) ==
    LET p == PosOf(d, k)
    IN  [n \in 1..(Len(d) - 1) |-> IF n < p THEN d[n] ELSE d[n + 1]]

\* list(...)[index] for a Python int: a negative index counts from the end.
ListIndexOk(n, index) == (0 - n) <= index /\ index < n

ListPos(n, index) == IF index < 0 THEN n + index + 1 ELSE index + 1

(***************************************************************************)
(* Results of a call: a returned value or a raised exception.              *)
(***************************************************************************)
Return(v) == [exc |-> "", val |-> v]

Raise(e) == [exc |-> e, val |-> "None"]

(***************************************************************************)
(* The methods, on the value of a container object:                        *)
(* self = [id, data, sealed, chirality, index], id being the address of    *)
(* the dict self.__data references and data the content of that dict.      *)
(* index is <<>> while the object has no __index attribute, <<n>> after.   *)
(* Each yields the object after the call and the call's result.            *)
(***************************************************************************)
\* The id of a dict the call creates ({} or dict.copy()): its address is
\* chosen when the object is stored.
NewDict == 0

\* add with the test of `replace` inverted.
add_replaceInverted(self, mol, replace) ==
    LET key == mol2smi(mol, self.chirality)
    IN  IF HasKey(self.data, key) /\ replace
        THEN [self |-> self, res |-> Return(FALSE)]
        ELSE [self |-> [self EXCEPT !.data = DictSet(self.data, key, mol),
                                    !.sealed = FALSE],
              res |-> Return(TRUE)]

\* add deleting a present key before it stores the molecule.
add_deleteFirst(self, mol, replace) ==
    LET key == mol2smi(mol, self.chirality)
        d == IF HasKey(self.data, key) THEN DictDel(self.data, key)
             ELSE self.data
    IN  IF HasKey(self.data, key) /\ ~replace
        THEN [self |-> self, res |-> Return(FALSE)]
        ELSE [self |-> [self EXCEPT !.data = DictSet(d, key, mol),
                                    !.sealed = FALSE],
              res |-> Return(TRUE)]

add(self, mol, replace) ==
    LET key == mol2smi(mol, self.chirality)
    IN  IF HasKey(self.data, key) /\ ~replace
        THEN [self |-> self, res |-> Return(FALSE)]
        ELSE [self |-> [self EXCEPT !.data = DictSet(self.data, key, mol),
                                    !.sealed = FALSE],
              res |-> Return(TRUE)]

\* remove_smiles breaking the seal before the deletion is attempted.
remove_smiles_sealFirst(self, smiles) ==
    IF HasKey(self.data, smiles)
    THEN [self |-> [self EXCEPT !.data = DictDel(self.data, smiles),
                                !.sealed = FALSE],
          res |-> Return(TRUE)]
    ELSE [self |-> [self EXCEPT !.sealed = FALSE], res |-> Return(FALSE)]

remove_smiles(self, smiles) ==
    IF HasKey(self.data, smiles)
    THEN [self |-> [self EXCEPT !.data = DictDel(self.data, smiles),
                                !.sealed = FALSE],
          res |-> Return(TRUE)]
    ELSE [self |-> self, res |-> Return(FALSE)]

remove_mol(self, mol) ==
    remove_smiles(self, mol2smi(mol, self.chirality))

\* The loop of remove_mols: `success` is only ever assigned False.
RECURSIVE remove_mols_loop(_, _, _, _)
remove_mols_loop(self, mol_list, success, n) ==
    IF n > Len(mol_list)
    THEN [self |-> self, res |-> Return(success)]
    ELSE LET r == remove_mol(self, mol_list[n])
         IN  remove_mols_loop(r.self, mol_list,
                              IF ~r.res.val THEN FALSE ELSE success, n + 1)

remove_mols(self, mol_list) ==
    IF mol_list = <<>>
    THEN [self |-> self, res |-> Return(TRUE)]
    ELSE remove_mols_loop(self, mol_list, FALSE, 1)

\* The loop of remove_from_indices over smi_list; the value remove_smiles
\* returns is dropped.
RECURSIVE remove_smi_list(_, _, _)
remove_smi_list(self, smi_list, n) ==
    IF n > Len(smi_list)
    THEN self
    ELSE remove_smi_list(remove_smiles(self, smi_list[n]).self, smi_list, n + 1)

\* remove_from_indices resolving each index when its removal is made, on
\* the keys left by the removals before it.
RECURSIVE lazy_indices(_, _, _, _)
lazy_indices(self, indices_list, smi_list, n) ==
    IF n > Len(indices_list)
    THEN [self |-> self, res |-> Return(smi_list)]
    ELSE IF ListIndexOk(Len(self.data), indices_list[n])
         THEN LET smi == DictKeys(self.data)[ListPos(Len(self.data),
                                                     indices_list[n])]
              IN  lazy_indices(remove_smiles(self, smi).self, indices_list,
                               Append(smi_list, smi), n + 1)
         ELSE [self |-> self, res |-> Raise("IndexError")]

remove_from_indices_lazy(self, indices_list) ==
    lazy_indices(self, indices_list, <<>>, 1)

\* keys_list[i] for every i first (a list comprehension: IndexError leaves
\* before any removal; a negative i counts from the end), then the removals.
remove_from_indices(self, indices_list) ==
    LET keys_list == DictKeys(self.data)
        size == Len(keys_list)
    IN  IF \E n \in 1..Len(indices_list) : ~ListIndexOk(size, indices_list[n])
        THEN [self |-> self, res |-> Raise("IndexError")]
        ELSE LET smi_list == [n \in 1..Len(indices_list) |->
                                  keys_list[ListPos(size, indices_list[n])]]
             IN  [self |-> remove_smi_list(self, smi_list, 1),
                  res |-> Return(smi_list)]

\* list(self.__data.keys())[index], then the item is deleted.  The seal is
\* not touched.
pop(self, index) ==
    IF ListIndexOk(Len(self.data), index)
    THEN LET key == DictKeys(self.data)[ListPos(Len(self.data), index)]
         IN  [self |-> [self EXCEPT !.data = DictDel(self.data, key)],
              res |-> Return(DictGet(self.data, key))]
    ELSE [self |-> self, res |-> Raise("IndexError")]

keys(self) == [self |-> self, res |-> Return(DictKeys(self.data))]

\* clear leaving the sealed attribute as it was.
clear_keepSealed(self) ==
    [self |-> [self EXCEPT !.id = NewDict, !.data = <<>>],
     res |-> Return("None")]

\* The dict is replaced by a new, empty one.
clear(self) ==
    [self |-> [self EXCEPT !.sealed = (Len(self.data) = 0),
                           !.id = NewDict, !.data = <<>>],
     res |-> Return("None")]

__len__(self) == [self |-> self, res |-> Return(Len(self.data))]

__contains__(self, mol) ==
    [self |-> self,
     res |-> Return(HasKey(self.data, mol2smi(mol, self.chirality)))]

\* key is a str (a SMILES), an int (a position) or of another type.
__getitem__(self, key) ==
    [self |-> self,
     res |-> CASE key.type = "str" ->
                      IF HasKey(self.data, key.v)
                      THEN Return(DictGet(self.data, key.v))
                      ELSE Raise("KeyError")
               [] key.type = "int" ->
                      IF ListIndexOk(Len(self.data), key.v)
                      THEN Return(self.data[ListPos(Len(self.data), key.v)].mol)
                      ELSE Raise("IndexError")
               [] OTHER -> Raise("TypeError")]

\* The value of self.__getitem__(key) is dropped: when nothing is raised the
\* method falls off its end and returns None.
get(self, key, default) ==
    LET r == __getitem__(self, key)
    IN  [self |-> r.self,
         res |-> IF r.res.exc # "" THEN Return(default) ELSE Return("None")]

\* __eq__ comparing the lists of keys instead of the sets of keys.
eq_ordered(self, other) ==
    [self |-> self,
     res |-> Return(DictKeys(self.data) = DictKeys(other.data))]

__eq__(self, other) ==
    [self |-> self,
     res |-> Return({self.data[n].key : n \in 1..Len(self.data)}
                    = {other.data[n].key : n \in 1..Len(other.data)})]

\* The loop of __init__ adding with replace=True.
RECURSIVE init_list_replace(_, _, _)
init_list_replace(self, argument, n) ==
    IF n > Len(argument)
    THEN self
    ELSE init_list_replace([add(self, argument[n], TRUE).self
                               EXCEPT !.sealed = FALSE],
                           argument, n + 1)

\* UniqueMoleculeContainer(argument, sealed, ignore_chirality).  argument is
\* None, a container, a list/tuple of molecules, or of another type.
\* A container argument gives a copy of its dict (a new dict of the same
\* items).
RECURSIVE init_list(_, _, _)
init_list(self, argument, n) ==
    IF n > Len(argument)
    THEN self
    ELSE init_list([add(self, argument[n], FALSE).self EXCEPT !.sealed = FALSE],
                   argument, n + 1)

\* __init__ taking the argument's dict itself instead of a copy of it.
init_sharedDict(argument, sealed, ignore_chirality) ==
    LET self == [id |-> NewDict, data |-> <<>>, sealed |-> sealed,
                 chirality |-> ~ignore_chirality, index |-> <<>>]
    IN  CASE argument.type = "None" ->
                 [self |-> self, res |-> Return("None")]
          [] argument.type = "container" ->
                 [self |-> [self EXCEPT !.id = argument.v.id,
                                        !.data = argument.v.data],
                  res |-> Return("None")]
          [] argument.type = "list" ->
                 [self |-> init_list(self, argument.v, 1),
                  res |-> Return("None")]
          [] OTHER -> [self |-> self, res |-> Raise("TypeError")]

__init__(argument, sealed, ignore_chirality) ==
    LET self == [id |-> NewDict, data |-> <<>>, sealed |-> sealed,
                 chirality |-> ~ignore_chirality, index |-> <<>>]
    IN  CASE argument.type = "None" ->
                 [self |-> self, res |-> Return("None")]
          [] argument.type = "container" ->
                 [self |-> [self EXCEPT !.id = NewDict,
                                        !.data = argument.v.data],
                  res |-> Return("None")]
          [] argument.type = "list" ->
                 [self |-> init_list(self, argument.v, 1),
                  res |-> Return("None")]
          [] OTHER -> [self |-> self, res |-> Raise("TypeError")]

copy(self) == __init__([type |-> "container", v |-> self], TRUE, FALSE).self

\* iter(self): the counter is reset and the container itself is returned as
\* the iterator.
__iter__(self) ==
    [self |-> [self EXCEPT !.index = <<0 - 1>>], res |-> Return("self")]

\* next(self): the counter is advanced before it is tested.
__next__(self) ==
    IF self.index = <<>>
    THEN [self |-> self, res |-> Raise("AttributeError")]
    ELSE LET index == self.index[1] + 1
             next == [self EXCEPT !.index = <<index>>]
         IN  IF index > Len(self.data) - 1
             THEN [self |-> next, res |-> Raise("StopIteration")]
             ELSE [self |-> next, res |-> Return(self.data[index + 1].mol)]

\* The loop of __add__ and __iadd__ over other.__data.items(): `new` is the
\* object receiving the items, `flagged` the sealed attribute of the object
\* the loop names self.
RECURSIVE merge(_, _, _, _)
merge(new, flagged, items, n) ==
    IF n > Len(items)
    THEN [new |-> new, sealed |-> flagged]
    ELSE IF ~HasKey(new, items[n].key)
         THEN merge(DictSet(new, items[n].key, items[n].mol), FALSE,
                    items, n + 1)
         ELSE merge(new, flagged, items, n + 1)

\* self + other: [self: the left operand after the call, new: the result].
__add__(self, other) ==
    LET new == copy(self)
        m == merge(new.data, self.sealed, other.data, 1)
    IN  [self |-> [self EXCEPT !.sealed = m.sealed],
         new |-> [new EXCEPT !.data = m.new]]

\* self += other
__iadd__(self, other) ==
    LET m == merge(self.data, self.sealed, other.data, 1)
    IN  [self |-> [self EXCEPT !.data = m.new, !.sealed = m.sealed],
         res |-> Return("self")]

\* The loops of __and__ (keep = TRUE) and __sub__ (keep = FALSE) over
\* self.__data.values().
RECURSIVE select(_, _, _, _, _)
select(new, values, other, keep, n) ==
    IF n > Len(values)
    THEN new
    ELSE IF __contains__(other, values[n]).res.val = keep
         THEN select(add(new, values[n], FALSE).self, values, other, keep,
                     n + 1)
         ELSE select(new, values, other, keep, n + 1)

Empty == __init__([type |-> "None"], TRUE, FALSE).self

__and__(self, other) == select(Empty, DictValues(self.data), other, TRUE, 1)

__sub__(self, other) == select(Empty, DictValues(self.data), other, FALSE, 1)

(***************************************************************************)
(* The heap.                                                               *)
(***************************************************************************)
\* The value of the container object slot i holds in heap h.
ObjIn(h, i) ==
    [id |-> h.cont[i].data,
     data |-> h.dicts[h.cont[i].data],
     sealed |-> h.cont[i].sealed,
     chirality |-> h.cont[i].chirality,
     index |-> h.cont[i].index]

Obj(i) == ObjIn(heap, i)

\* A dict address no container other than the one of slot j references.
FreshDict(j) ==
    CHOOSE d \in DictIds :
        /\ \A i \in Slots \ {j} : cont[i].data # d
        /\ \A e \in DictIds :
               (\A i \in Slots \ {j} : cont[i].data # e) => d <= e

\* Unreferenced dicts are collected.
Collect(c, h) ==
    [d \in DictIds |-> IF \E i \in Slots : c[i].data = d THEN h[d] ELSE <<>>]

\* The heap once slot j holds object `o`: the object it held, updated in
\* place, or a new object bound to it.  A new dict gets a free address;
\* c is cont after the call's effects on the other objects.
Stored(j, o, c) ==
    LET c2 == [c EXCEPT ![j] =
                   [data |-> IF o.id = NewDict THEN FreshDict(j) ELSE o.id,
                    sealed |-> o.sealed,
                    chirality |-> o.chirality,
                    index |-> o.index]]
    IN  [cont |-> c2,
         dicts |-> Collect(c2, [dicts EXCEPT ![c2[j].data] = o.data]),
         loops |-> heap.loops]

(***************************************************************************)
(* The operations: a call of a method on the object of slot i (the value   *)
(* it returns is the `res` of the method above), or the binding of a new   *)
(* object to slot j.  XPost is the heap after operation X.                 *)
(***************************************************************************)
AddPost(i, mol, replace) == Stored(i, add(Obj(i), mol, replace).self, cont)

Add(i, mol, replace) == heap' = AddPost(i, mol, replace)

RemoveSmilesPost(i, smiles) ==
    Stored(i, remove_smiles(Obj(i), smiles).self, cont)

RemoveSmiles(i, smiles) == heap' = RemoveSmilesPost(i, smiles)

RemoveMolPost(i, mol) == Stored(i, remove_mol(Obj(i), mol).self, cont)

RemoveMol(i, mol) == heap' = RemoveMolPost(i, mol)

RemoveMolsPost(i, mol_list) ==
    Stored(i, remove_mols(Obj(i), mol_list).self, cont)

RemoveMols(i, mol_list) == heap' = RemoveMolsPost(i, mol_list)

RemoveFromIndicesPost(i, indices_list) ==
    Stored(i, remove_from_indices(Obj(i), indices_list).self, cont)

RemoveFromIndices(i, indices_list) ==
    heap' = RemoveFromIndicesPost(i, indices_list)

PopPost(i, index) == Stored(i, pop(Obj(i), index).self, cont)

Pop(i, index) == heap' = PopPost(i, index)

KeysPost(i) == Stored(i, keys(Obj(i)).self, cont)

Keys(i) == heap' = KeysPost(i)

ClearPost(i) == Stored(i, clear(Obj(i)).self, cont)

Clear(i) == heap' = ClearPost(i)

LenPost(i) == Stored(i, __len__(Obj(i)).self, cont)

LenOf(i) == heap' = LenPost(i)

ContainsPost(i, mol) == Stored(i, __contains__(Obj(i), mol).self, cont)

Contains(i, mol) == heap' = ContainsPost(i, mol)

GetItemPost(i, key) == Stored(i, __getitem__(Obj(i), key).self, cont)

GetItem(i, key) == heap' = GetItemPost(i, key)

GetPost(i, key, default) == Stored(i, get(Obj(i), key, default).self, cont)

Get(i, key, default) == heap' = GetPost(i, key, default)

EqPost(i, k) == Stored(i, __eq__(Obj(i), Obj(k)).self, cont)

Eq(i, k) == heap' = EqPost(i, k)

\* x.sealed = True / x.sealed = False: the owner sets the attribute.
SetSealed(i, b) == heap' = [heap EXCEPT !.cont[i].sealed = b]

\* j = UniqueMoleculeContainer(sealed=..., ignore_chirality=...)
NewPost(j, sealed, ignore_chirality) ==
    Stored(j, __init__([type |-> "None"], sealed, ignore_chirality).self, cont)

New(j, sealed, ignore_chirality) == heap' = NewPost(j, sealed, ignore_chirality)

\* j = UniqueMoleculeContainer(i, sealed=..., ignore_chirality=...)
NewFromContainerPost(j, i, sealed, ignore_chirality) ==
    Stored(j, __init__([type |-> "container", v |-> Obj(i)], sealed,
                       ignore_chirality).self, cont)

NewFromContainer(j, i, sealed, ignore_chirality) ==
    heap' = NewFromContainerPost(j, i, sealed, ignore_chirality)

\* j = UniqueMoleculeContainer([m, ...], sealed=..., ignore_chirality=...)
NewFromListPost(j, argument, sealed, ignore_chirality) ==
    Stored(j, __init__([type |-> "list", v |-> argument], sealed,
                       ignore_chirality).self, cont)

NewFromList(j, argument, sealed, ignore_chirality) ==
    heap' = NewFromListPost(j, argument, sealed, ignore_chirality)

\* j = UniqueMoleculeContainer(<neither a container nor a list or tuple>):
\* TypeError is raised and j is not bound.
NewFromOther(j) ==
    /\ __init__([type |-> "other"], TRUE, FALSE).res.exc = "TypeError"
    /\ UNCHANGED heap

\* j = i.copy()
CopyPost(j, i) == Stored(j, copy(Obj(i)), cont)

Copy(j, i) == heap' = CopyPost(j, i)

\* j = i + k
OpAddPost(j, i, k) ==
    LET r == __add__(Obj(i), Obj(k))
    IN  Stored(j, r.new, [cont EXCEPT ![i].sealed = r.self.sealed])

OpAdd(j, i, k) == heap' = OpAddPost(j, i, k)

\* i += k
IAddPost(i, k) == Stored(i, __iadd__(Obj(i), Obj(k)).self, cont)

IAdd(i, k) == heap' = IAddPost(i, k)

\* j = i & k
OpAndPost(j, i, k) == Stored(j, __and__(Obj(i), Obj(k)), cont)

OpAnd(j, i, k) == heap' = OpAndPost(j, i, k)

\* j = i - k
OpSubPost(j, i, k) == Stored(j, __sub__(Obj(i), Obj(k)), cont)

OpSub(j, i, k) == heap' = OpSubPost(j, i, k)

\* Arguments of __getitem__ and get: a str, an int, another object.
StrKeys == {[type |-> "str", v |-> s] : s \in Smiles}

IntKeys == {[type |-> "int", v |-> n] : n \in Indices}

OtherKeys == {[type |-> "other", v |-> "obj"]}

Defaults == {"None", "dflt"}

\* Lists of molecules of at most MaxList elements.
MolLists == UNION {[1..n -> Mols] : n \in 0..MaxList}

\* Lists of positions of at most MaxList elements.
IndexLists == UNION {[1..n -> Indices] : n \in 0..MaxList}

\* The for loops of the caller (or any other consumer of iter(i) and next,
\* as zip(x, x) or explicit calls).
Loops == {1, 2}

\* Most records a for loop is followed for.
MaxYield == 3

loops == heap.loops

\* No for loop has begun.
NoLoops == [l \in Loops |-> [pc |-> "idle", it |-> 1, out |-> <<>>]]

\* `for mol in i:` begins: the loop calls iter(i) and holds what it returns,
\* the container itself, as its iterator.
ForIterPost(l, i) ==
    [Stored(i, __iter__(Obj(i)).self, cont)
        EXCEPT !.loops[l] = [pc |-> "run", it |-> i, out |-> <<>>]]

ForIter(l, i) ==
    /\ loops[l].pc # "run"
    /\ heap' = ForIterPost(l, i)

\* The loop asks its iterator for the next record: next(it) gives the
\* record of one more turn of the loop, or StopIteration ends the loop.
ForNextPost(l) ==
    LET r == __next__(Obj(loops[l].it))
    IN  [Stored(loops[l].it, r.self, cont)
            EXCEPT !.loops[l] =
                IF r.res.exc = ""
                THEN [@ EXCEPT !.out = Append(@, r.res.val)]
                ELSE [@ EXCEPT !.pc = "done"]]

ForNext(l) ==
    /\ loops[l].pc = "run"
    /\ Len(loops[l].out) < MaxYield
    /\ heap' = ForNextPost(l)

\* x = UniqueMoleculeContainer(); y = UniqueMoleculeContainer()
Init ==
    heap = [cont |-> [i \in Slots |-> [data |-> i, sealed |-> TRUE,
                                        chirality |-> TRUE, index |-> <<>>]],
            dicts |-> [d \in DictIds |-> <<>>],
            loops |-> NoLoops]

Next ==
    \/ \E i \in Slots, mol \in Mols, replace \in BOOLEAN : Add(i, mol, replace)
    \/ \E i \in Slots, smiles \in Smiles : RemoveSmiles(i, smiles)
    \/ \E i \in Slots, mol \in Mols : RemoveMol(i, mol)
    \/ \E i \in Slots, index \in Indices : Pop(i, index)
    \/ \E i \in Slots : Keys(i)
    \/ \E i \in Slots : Clear(i)
    \/ \E i \in Slots : LenOf(i)
    \/ \E i \in Slots, mol \in Mols : Contains(i, mol)
    \/ \E i \in Slots, key \in StrKeys : GetItem(i, key)
    \/ \E i \in Slots, key \in IntKeys : GetItem(i, key)
    \/ \E i \in Slots, key \in OtherKeys : GetItem(i, key)
    \/ \E i \in Slots, key \in StrKeys, default \in Defaults :
           Get(i, key, default)
    \/ \E i \in Slots, key \in IntKeys, default \in Defaults :
           Get(i, key, default)
    \/ \E i \in Slots, key \in OtherKeys, default \in Defaults :
           Get(i, key, default)
    \/ \E i \in Slots, k \in Slots : Eq(i, k)
    \/ \E i \in Slots, b \in BOOLEAN : SetSealed(i, b)
    \/ \E j \in Slots, sealed \in BOOLEAN, ignore_chirality \in BOOLEAN :
           New(j, sealed, ignore_chirality)
    \/ \E j \in Slots, i \in Slots, sealed \in BOOLEAN,
          ignore_chirality \in BOOLEAN :
           NewFromContainer(j, i, sealed, ignore_chirality)
    \/ \E j \in Slots, argument \in MolLists, sealed \in BOOLEAN,
          ignore_chirality \in BOOLEAN :
           NewFromList(j, argument, sealed, ignore_chirality)
    \/ \E j \in Slots : NewFromOther(j)
    \/ \E j \in Slots, i \in Slots : Copy(j, i)
    \/ \E j \in Slots, i \in Slots, k \in Slots : OpAdd(j, i, k)
    \/ \E i \in Slots, k \in Slots : IAdd(i, k)
    \/ \E j \in Slots, i \in Slots, k \in Slots : OpAnd(j, i, k)
    \/ \E j \in Slots, i \in Slots, k \in Slots : OpSub(j, i, k)

Spec == Init /\ [][Next]_vars

\* The removals by list, remove_mols and remove_from_indices, and the
\* access by position, on the containers of Spec: these are built by
\* construction, add, += and the assignment of sealed.
NextBatch ==
    \/ \E j \in Slots, sealed \in BOOLEAN, ignore_chirality \in BOOLEAN :
           New(j, sealed, ignore_chirality)
    \/ \E i \in Slots, mol \in Mols, replace \in BOOLEAN : Add(i, mol, replace)
    \/ \E i \in Slots, k \in Slots : IAdd(i, k)
    \/ \E i \in Slots, b \in BOOLEAN : SetSealed(i, b)
    \/ \E i \in Slots, mol_list \in MolLists : RemoveMols(i, mol_list)
    \/ \E i \in Slots, indices_list \in IndexLists :
           RemoveFromIndices(i, indices_list)
    \/ \E i \in Slots, index \in Indices : Pop(i, index)
    \/ \E i \in Slots, key \in IntKeys : GetItem(i, key)

SpecBatch == Init /\ [][NextBatch]_vars

\* The constructions alone: UniqueMoleculeContainer() with every kind of
\* argument, bound to either variable.
NextInit ==
    \/ \E j \in Slots, sealed \in BOOLEAN, ignore_chirality \in BOOLEAN :
           New(j, sealed, ignore_chirality)
    \/ \E j \in Slots, i \in Slots, sealed \in BOOLEAN,
          ignore_chirality \in BOOLEAN :
           NewFromContainer(j, i, sealed, ignore_chirality)
    \/ \E j \in Slots, argument \in MolLists, sealed \in BOOLEAN,
          ignore_chirality \in BOOLEAN :
           NewFromList(j, argument, sealed, ignore_chirality)
    \/ \E j \in Slots : NewFromOther(j)

SpecInit == Init /\ [][NextInit]_vars

\* x = UniqueMoleculeContainer(a, ignore_chirality=...);
\* y = UniqueMoleculeContainer(b, ignore_chirality=...), for lists a and b.
InitIter ==
    \E argument \in [Slots -> MolLists], ignore_chirality \in [Slots -> BOOLEAN] :
        LET new(i) == __init__([type |-> "list", v |-> argument[i]], TRUE,
                               ignore_chirality[i]).self
        IN  heap = [cont |-> [i \in Slots |->
                                  [data |-> i, sealed |-> new(i).sealed,
                                   chirality |-> new(i).chirality,
                                   index |-> new(i).index]],
                    dicts |-> [d \in DictIds |-> new(d).data],
                    loops |-> NoLoops]

\* The for loops of the caller over the two containers, one step of one loop
\* at a time; the containers are not otherwise used.
NextIter ==
    \/ \E l \in Loops, i \in Slots : ForIter(l, i)
    \/ \E l \in Loops : ForNext(l)

SpecIter == InitIter /\ [][NextIter]_vars

(***************************************************************************)
(* Properties.                                                             *)
(***************************************************************************)
\* The items of the container of slot i, now and in heap h, and the key the
\* container computes for a molecule.
Entries(i) == Obj(i).data

EntriesIn(h, i) == ObjIn(h, i).data

KeyOf(i, mol) == mol2smi(mol, cont[i].chirality)

KeySet(d) == {d[n].key : n \in 1..Len(d)}

\* C1: add(r) without replace on a container lacking r's key returns True,
\* a second add(r) then returns False, and the size grows by exactly 1 over
\* the two calls.
C1_AddTwice ==
    \A i \in Slots, mol \in Mols :
        ~HasKey(Entries(i), KeyOf(i, mol)) =>
            LET first == add(Obj(i), mol, FALSE)
                after == ObjIn(AddPost(i, mol, FALSE), i)
                second == add(after, mol, FALSE)
            IN  /\ first.res = Return(TRUE)
                /\ Len(after.data) = Len(Entries(i)) + 1
                /\ second.res = Return(FALSE)
                /\ second.self = after

\* A container that was empty holds r after add(r), and add(r) now returns
\* False.
C1_Witness ==
    \E i \in Slots, mol \in Mols :
        /\ Entries(i) = <<[key |-> KeyOf(i, mol), mol |-> mol]>>
        /\ ~cont[i].sealed
        /\ add(Obj(i), mol, FALSE).res = Return(FALSE)

\* C2: a container never holds two entries whose records have the same
\* canonical key (under the container's chirality mode).
C2_UniqueCanonicalKey ==
    \A i \in Slots :
        \A p \in 1..Len(Entries(i)), q \in 1..Len(Entries(i)) :
            p # q => KeyOf(i, Entries(i)[p].mol) # KeyOf(i, Entries(i)[q].mol)

\* C3: every operation that successfully changes a container's entries
\* (add of a new key or with replace, the removals, pop, += inserting a
\* key, clear of a non-empty container) leaves its sealed flag false.
C3_MutationBreaksSeal ==
    \A i \in Slots :
        /\ \A mol \in Mols, replace \in BOOLEAN :
               add(Obj(i), mol, replace).res.val
                   => ~AddPost(i, mol, replace).cont[i].sealed
        /\ \A smiles \in Smiles :
               remove_smiles(Obj(i), smiles).res.val
                   => ~RemoveSmilesPost(i, smiles).cont[i].sealed
        /\ \A mol \in Mols :
               remove_mol(Obj(i), mol).res.val
                   => ~RemoveMolPost(i, mol).cont[i].sealed
        /\ \A index \in Indices :
               pop(Obj(i), index).res.exc = ""
                   => ~PopPost(i, index).cont[i].sealed
        /\ \A k \in Slots :
               EntriesIn(IAddPost(i, k), i) # Entries(i)
                   => ~IAddPost(i, k).cont[i].sealed
        /\ Len(Entries(i)) > 0 => ~ClearPost(i).cont[i].sealed

OrderKept(old, new) ==
    \A p \in 1..Len(new), q \in 1..Len(new) :
        p < q =>
            /\ (HasKey(old, new[p].key) /\ HasKey(old, new[q].key))
                   => PosOf(old, new[p].key) < PosOf(old, new[q].key)
            /\ HasKey(old, new[q].key) => HasKey(old, new[p].key)

\* C5: add, remove and pop keep the keys in insertion order: add of a new
\* key puts it last, add with replace on a present key does not move it, a
\* removal or a pop leaves the order of the remaining keys, and pop(0)
\* returns the record of the first key.
C5_InsertionOrder ==
    \A i \in Slots :
        /\ \A mol \in Mols, replace \in BOOLEAN :
               DictKeys(EntriesIn(AddPost(i, mol, replace), i)) =
                   IF HasKey(Entries(i), KeyOf(i, mol))
                   THEN DictKeys(Entries(i))
                   ELSE Append(DictKeys(Entries(i)), KeyOf(i, mol))
        /\ \A smiles \in Smiles :
               LET new == EntriesIn(RemoveSmilesPost(i, smiles), i)
               IN  /\ KeySet(new) = KeySet(Entries(i)) \ {smiles}
                   /\ OrderKept(Entries(i), new)
        /\ \A mol \in Mols :
               LET new == EntriesIn(RemoveMolPost(i, mol), i)
               IN  /\ KeySet(new) = KeySet(Entries(i)) \ {KeyOf(i, mol)}
                   /\ OrderKept(Entries(i), new)
        /\ \A index \in Indices :
               pop(Obj(i), index).res.exc = "" =>
                   LET new == EntriesIn(PopPost(i, index), i)
                   IN  /\ Len(new) = Len(Entries(i)) - 1
                       /\ KeySet(new) \subseteq KeySet(Entries(i))
                       /\ OrderKept(Entries(i), new)
        /\ Len(Entries(i)) > 0 =>
               /\ pop(Obj(i), 0).res = Return(Entries(i)[1].mol)
               /\ EntriesIn(PopPost(i, 0), i) = Tail(Entries(i))

\* A container of three keys, inserted in an order that is not the order of
\* the keys themselves, from which pop(0) returns the first record.
C5_Witness ==
    \E i \in Slots :
        /\ DictKeys(Entries(i)) = <<mol2smi("mol3", TRUE), mol2smi("mol1", TRUE),
                                    mol2smi("mol3", FALSE)>>
        /\ pop(Obj(i), 0).res = Return("mol3")

\* C6: get(key, default) returns the record stored under key when the key
\* is present and default when it is absent, and never raises.
C6_GetReturnsRecord ==
    \A i \in Slots, key \in StrKeys, default \in Defaults :
        get(Obj(i), key, default).res =
            IF HasKey(Entries(i), key.v)
            THEN Return(DictGet(Entries(i), key.v))
            ELSE Return(default)

\* The records of d whose key is (keep) or is not (~keep) a key of e, in
\* the order of d.
RECURSIVE Filter(_, _, _, _)
Filter(d, e, keep, n) ==
    IF n > Len(d)
    THEN <<>>
    ELSE IF HasKey(e, d[n].key) = keep
         THEN <<d[n].mol>> \o Filter(d, e, keep, n + 1)
         ELSE Filter(d, e, keep, n + 1)

\* C7: A & B holds the records of A whose key is in B, A - B those whose
\* key is not, each in A's order; A + B holds one entry per key of A or B;
\* len(A & B) + len(A - B) = len(A) and len(A + B) = len(A) + len(B - A).
C7_SetAlgebra ==
    \A i \in Slots, k \in Slots :
        LET A == Obj(i)
            B == Obj(k)
        IN  /\ DictValues(__and__(A, B).data) = Filter(A.data, B.data, TRUE, 1)
            /\ DictValues(__sub__(A, B).data) = Filter(A.data, B.data, FALSE, 1)
            /\ KeySet(__add__(A, B).new.data) = KeySet(A.data) \cup KeySet(B.data)
            /\ Len(__add__(A, B).new.data)
                   = Cardinality(KeySet(A.data) \cup KeySet(B.data))
            /\ Len(__and__(A, B).data) + Len(__sub__(A, B).data) = Len(A.data)
            /\ Len(__add__(A, B).new.data)
                   = Len(A.data) + Len(__sub__(B, A).data)

\* C8: A + B leaves the entries and the sealed flag of both operands
\* unchanged.
C8_UnionKeepsOperands ==
    \A j \in Slots, i \in Slots, k \in Slots :
        \A s \in {i, k} \ {j} : ObjIn(OpAddPost(j, i, k), s) = Obj(s)

\* The entries and the sealed flag of every container other than the one of
\* slot i are in heap h what they are now.
OthersKept(h, i) ==
    \A s \in Slots \ {i} :
        /\ EntriesIn(h, s) = Entries(s)
        /\ h.cont[s].sealed = cont[s].sealed

\* C9: a copy equals its original when it is made and has a dict of its
\* own; add, remove, pop and clear on one container leave the entries and
\* the sealed flag of every other container unchanged.
C9_CopyIndependent ==
    /\ \A j \in Slots, i \in Slots :
           LET h == CopyPost(j, i)
           IN  /\ __eq__(ObjIn(h, j), Obj(i)).res = Return(TRUE)
               /\ EntriesIn(h, j) = Entries(i)
               /\ j # i => h.cont[j].data # h.cont[i].data
    /\ \A j \in Slots, i \in Slots, sealed \in BOOLEAN,
          ignore_chirality \in BOOLEAN :
           LET h == NewFromContainerPost(j, i, sealed, ignore_chirality)
           IN  /\ __eq__(ObjIn(h, j), Obj(i)).res = Return(TRUE)
               /\ EntriesIn(h, j) = Entries(i)
               /\ j # i => h.cont[j].data # h.cont[i].data
    /\ \A i \in Slots :
           /\ \A mol \in Mols, replace \in BOOLEAN :
                  OthersKept(AddPost(i, mol, replace), i)
           /\ \A smiles \in Smiles : OthersKept(RemoveSmilesPost(i, smiles), i)
           /\ \A mol \in Mols : OthersKept(RemoveMolPost(i, mol), i)
           /\ \A index \in Indices : OthersKept(PopPost(i, index), i)
           /\ OthersKept(ClearPost(i), i)

\* Two containers with dicts of their own that share their first entry, one
\* sealed with that entry alone, the other unsealed with a second entry.
C9_Witness ==
    \E i \in Slots, j \in Slots :
        /\ i # j
        /\ cont[i].data # cont[j].data
        /\ Len(Entries(i)) = 2
        /\ Len(Entries(j)) = 1
        /\ Entries(j)[1] = Entries(i)[1]
        /\ cont[j].sealed
        /\ ~cont[i].sealed

\* C10: a copy has the chirality mode of its original, so that the
\* membership test and add compute, for every molecule, the same key on the
\* copy as on the original.
C10_CopyKeepsChirality ==
    \A j \in Slots, i \in Slots :
        LET new == ObjIn(CopyPost(j, i), j)
        IN  /\ new.chirality = Obj(i).chirality
            /\ \A mol \in Mols :
                   /\ __contains__(new, mol).res = __contains__(Obj(i), mol).res
                   /\ add(new, mol, FALSE).res = add(Obj(i), mol, FALSE).res

\* C11: two containers compare equal if and only if their sets of keys are
\* the same; the order of the keys and the records stored under them do not
\* count, and the comparison is symmetric.
C11_EqualIffSameKeys ==
    \A i \in Slots, k \in Slots :
        /\ __eq__(Obj(i), Obj(k)).res.val
               <=> (\A s \in Smiles : HasKey(Entries(i), s) <=> HasKey(Entries(k), s))
        /\ __eq__(Obj(i), Obj(k)).res = __eq__(Obj(k), Obj(i)).res

\* Two containers that hold the same two keys in opposite orders, with
\* different Mol objects under one of them, and compare equal.
C11_Witness ==
    \E i \in Slots, k \in Slots :
        /\ Len(Entries(i)) = 2
        /\ DictKeys(Entries(k)) = <<Entries(i)[2].key, Entries(i)[1].key>>
        /\ DictValues(Entries(k)) # <<Entries(i)[2].mol, Entries(i)[1].mol>>
        /\ __eq__(Obj(i), Obj(k)).res = Return(TRUE)

\* Every removal of the loop of remove_mols succeeds: each record is present
\* when its removal is attempted.
RECURSIVE AllRemoved(_, _, _)
AllRemoved(self, mol_list, n) ==
    \/ n > Len(mol_list)
    \/ /\ remove_mol(self, mol_list[n]).res.val
       /\ AllRemoved(remove_mol(self, mol_list[n]).self, mol_list, n + 1)

\* C12: remove_mols on a non-empty list returns True exactly when every
\* record of the list was present when its removal was attempted.
C12_RemoveManyResult ==
    \A i \in Slots, mol_list \in MolLists :
        mol_list # <<>> =>
            remove_mols(Obj(i), mol_list).res
                = Return(AllRemoved(Obj(i), mol_list, 1))

\* The positions 0 .. size-1 of the container of slot i.
InRange(i, index) == 0 <= index /\ index < Len(Entries(i))

\* C13: remove_from_indices with positions in [0, size) returns the keys at
\* those positions of the key order before the call, in the order of the
\* positions given, removes exactly those keys, and leaves the other items
\* as they were, in their order.
C13_IndicesSnapshot ==
    \A i \in Slots, indices_list \in IndexLists :
        (\A n \in 1..Len(indices_list) : InRange(i, indices_list[n])) =>
            LET old == Entries(i)
                new == EntriesIn(RemoveFromIndicesPost(i, indices_list), i)
                smi_list == [n \in 1..Len(indices_list) |->
                                 old[indices_list[n] + 1].key]
            IN  /\ remove_from_indices(Obj(i), indices_list).res
                       = Return(smi_list)
                /\ KeySet(new)
                       = KeySet(old) \ {smi_list[n] : n \in 1..Len(smi_list)}
                /\ OrderKept(old, new)
                /\ \A n \in 1..Len(new) : new[n] = old[PosOf(old, new[n].key)]

\* A container of three keys k0, k1, k2 on which remove_from_indices([0, 2])
\* returns [k0, k2] and leaves k1, and on which [1, 0] returns [k1, k0].
C13_Witness ==
    \E i \in Slots :
        /\ Len(Entries(i)) = 3
        /\ remove_from_indices(Obj(i), <<0, 2>>).res
               = Return(<<Entries(i)[1].key, Entries(i)[3].key>>)
        /\ EntriesIn(RemoveFromIndicesPost(i, <<0, 2>>), i) = <<Entries(i)[2]>>
        /\ remove_from_indices(Obj(i), <<1, 0>>).res
               = Return(<<Entries(i)[2].key, Entries(i)[1].key>>)

\* C14: remove_from_indices with a position outside [0, size) in its list
\* raises IndexError and removes nothing: the entries and the sealed flag
\* are unchanged.
C14_BadIndexNoRemoval ==
    \A i \in Slots, indices_list \in IndexLists :
        (\E n \in 1..Len(indices_list) : ~InRange(i, indices_list[n])) =>
            /\ remove_from_indices(Obj(i), indices_list).res
                   = Raise("IndexError")
            /\ RemoveFromIndicesPost(i, indices_list) = heap

\* C15: [index], pop(index) and remove_from_indices([index]) raise IndexError
\* and leave the container unchanged for every integer outside [0, size).
C15_IndexOutsideRange ==
    \A i \in Slots, index \in Indices :
        ~InRange(i, index) =>
            /\ __getitem__(Obj(i), [type |-> "int", v |-> index]).res
                   = Raise("IndexError")
            /\ pop(Obj(i), index).res = Raise("IndexError")
            /\ PopPost(i, index) = heap
            /\ remove_from_indices(Obj(i), <<index>>).res = Raise("IndexError")
            /\ RemoveFromIndicesPost(i, <<index>>) = heap

\* C16: clear() leaves the container empty, with sealed true exactly when it
\* was empty before the call, whatever sealed was.
C16_ClearSeal ==
    \A i \in Slots :
        /\ EntriesIn(ClearPost(i), i) = <<>>
        /\ ClearPost(i).cont[i].sealed = (Len(Entries(i)) = 0)
        /\ clear(Obj(i)).res = Return("None")

\* An empty container that is not sealed, which clear() seals, and a sealed
\* container with entries, which clear() unseals.
C16_Witness ==
    \E i \in Slots, k \in Slots :
        /\ Len(Entries(i)) = 0
        /\ ~cont[i].sealed
        /\ ClearPost(i).cont[i].sealed
        /\ Len(Entries(k)) > 0
        /\ cont[k].sealed
        /\ ~ClearPost(k).cont[k].sealed

\* The items a sequence of records gives under chirality mode c: one per
\* distinct key, the first record of each key, in the order the keys first
\* occur.
RECURSIVE FirstOccurrences(_, _, _)
FirstOccurrences(argument, c, n) ==
    IF n = 0
    THEN <<>>
    ELSE LET before == FirstOccurrences(argument, c, n - 1)
             key == mol2smi(argument[n], c)
         IN  IF \E p \in 1..(n - 1) : mol2smi(argument[p], c) = key
             THEN before
             ELSE Append(before, [key |-> key, mol |-> argument[n]])

C18_KeyIsCanonical ==
    \A i \in Slots :
        \A n \in 1..Len(Entries(i)) :
            /\ Entries(i)[n].key = KeyOf(i, Entries(i)[n].mol)
            /\ \A p \in 1..Len(Entries(i)) :
                   Entries(i)[p].mol = Entries(i)[n].mol => p = n

\* C20: for containers A and B of any chirality modes, the key sets of A & B
\* and A - B are disjoint and their union is the key set of A, so that
\* (A & B) + (A - B) == A and A & A == A.
C20_AndSubPartition ==
    \A i \in Slots, k \in Slots :
        LET A == Obj(i)
            B == Obj(k)
            both == __and__(A, B)
            only == __sub__(A, B)
        IN  /\ KeySet(both.data) \cap KeySet(only.data) = {}
            /\ KeySet(both.data) \cup KeySet(only.data) = KeySet(A.data)
            /\ __eq__(__add__(both, only).new, A).res = Return(TRUE)
            /\ __eq__(__and__(A, A), A).res = Return(TRUE)

\* s is an initial part of t.
IsPrefix(s, t) == Len(s) <= Len(t) /\ \A n \in 1..Len(s) : s[n] = t[n]

\* C19: a for loop over a container that is not changed is given each
\* record once, in key order, and then ends, whatever other loops over the
\* same container begin or go on in the meantime.
C19_TraversalsIndependent ==
    \A l \in Loops :
        LET values == DictValues(Entries(loops[l].it))
        IN  /\ loops[l].pc = "run" => IsPrefix(loops[l].out, values)
            /\ loops[l].pc = "done" => loops[l].out = values
====
